---- MODULE Spec2Model ----
(***************************************************************************)
(* A model of bin/cli.js of boru: the two terminal prompts (multiselect    *)
(* and confirm) and the main routine that runs them one after the other.   *)
(* A raw input chunk is the sequence of its character codes; the handlers  *)
(* compare the whole chunk with string literals, as the code does.         *)
(* Indices into options are the 0-based indices of the JavaScript code;    *)
(* options[i] of the code is options[i + 1] here.                          *)
(***************************************************************************)
EXTENDS Integers, Sequences, FiniteSets, TLC

\* The largest number of entries of TEMPLATES (options of multiselect) explored.
MaxN == 3

(***************************************************************************)
(* Input chunks                                                            *)
(***************************************************************************)
ETX == <<3>>
UP == <<27, 91, 65>>
DOWN == <<27, 91, 66>>
SPACE == <<32>>
CR == <<13>>

\* The key encodings the handlers know.
WellFormedKeys == {ETX, UP, DOWN, SPACE, CR}

\* Single printable characters: y, Y, n, N, x.
CharKeys == {<<121>>, <<89>>, <<110>>, <<78>>, <<120>>}

\* Escape sequences no handler knows: ESC alone, ESC [ and ESC [ C.
OtherEscapes == {<<27>>, <<27, 91>>, <<27, 91, 67>>}

\* The keys explored inside chunks of several keys.
PairKeys == {DOWN, SPACE, CR}

\* Chunks holding two key encodings one after the other.
MultiKeyChunks == {a \o b : a \in PairKeys, b \in PairKeys}

\* Chunks holding an unknown escape sequence and then Down.
EscapeThenKeyChunks == {e \o DOWN : e \in OtherEscapes}

\* What a 'data' event of stdin may carry.
Chunks == WellFormedKeys \cup CharKeys \cup OtherEscapes \cup MultiKeyChunks \cup EscapeThenKeyChunks

\* String.prototype.toLowerCase on the character codes of a chunk.
ToLowerCase(s) == [i \in 1..Len(s) |-> IF s[i] \in 65..90 THEN s[i] + 32 ELSE s[i]]

(***************************************************************************)
(* TEMPLATES and the option list                                           *)
(***************************************************************************)
\* The i-th key of TEMPLATES (0-based); keys past the three of the source
\* stand for further entries of the table.
TemplateKey(i) ==
  IF i = 0 THEN "pre-commit"
  ELSE IF i = 1 THEN "pre-push"
  ELSE IF i = 2 THEN "commit-msg"
  ELSE "hook-" \o ToString(i)

\* choices of main: one option per key of TEMPLATES, in the table's order.
Choices(n) == [i \in 1..n |-> [key |-> TemplateKey(i - 1), name |-> TemplateKey(i - 1)]]

Range(s) == {s[i] : i \in 1..Len(s)}

(***************************************************************************)
(* State                                                                   *)
(***************************************************************************)
VARIABLES
  pc,          \* where main is: start, msListening, msResolved, cfListening, cfResolved, exited
  exitCode,    \* the process's exit status, -1 while it runs
  exitReason,  \* none, notGit, interrupt, crash, noHooks, done
  options,     \* the option list given to multiselect
  cursor,      \* multiselect: let cursor
  selected,    \* multiselect: the Set selected, in insertion order
  msResolved,  \* multiselect's promise has resolved
  selectedKeys,\* the value it resolved to
  cfResult,    \* confirm's promise: undecided, true, false
  isRaw,       \* stdin.isRaw
  flowing,     \* stdin is resumed (not paused)
  listeners,   \* the 'data' listeners of stdin: ms, cf
  acquires,    \* per prompt, the calls of stdin.setRawMode(true)
  releases,    \* per prompt, the calls of stdin.setRawMode(false)
  cursorHidden,\* the terminal's cursor is hidden
  lastCtl,     \* the last terminal-control sequence written to stdout
  frame,       \* the rows render painted last
  frameTop,    \* the terminal row of its first line, counted from where multiselect began
  frameEnd,    \* the terminal row the cursor was left on after it
  lastChunk,   \* the chunk of the last 'data' event
  chunkTo,     \* the prompt whose handler received it: none, ms, cf
  dirExists,   \* .boru exists
  files,       \* the hook files in .boru: key -> user (there before) or template (written)
  hooksPath,   \* git config core.hooksPath was set
  staged       \* git add .boru succeeded

vars == <<pc, exitCode, exitReason, options, cursor, selected, msResolved, selectedKeys,
          cfResult, isRaw, flowing, listeners, acquires, releases, cursorHidden, lastCtl,
          frame, frameTop, frameEnd, lastChunk, chunkTo, dirExists, files, hooksPath, staged>>

msVars == <<cursor, selected, msResolved, selectedKeys, frame, frameTop, frameEnd>>
fsVars == <<dirExists, files, hooksPath, staged>>
ttyVars == <<isRaw, flowing, listeners, acquires, releases>>
outVars == <<cursorHidden, lastCtl>>

N == Len(options)

(***************************************************************************)
(* stdout                                                                  *)
(***************************************************************************)
\* The control sequences render writes: moveCursor(0, -n) writes nothing for
\* n = 0, then each row is clearLine and a line that ends in a style reset.
RenderCtl(n) == IF n = 0 THEN <<>> ELSE <<"up">> \o [i \in 1..(2 * n) |-> IF i % 2 = 1 THEN "clearLine" ELSE "sgr"]

\* The last control sequence on the terminal after writing toks.
LastOf(last, toks) == IF toks = <<>> THEN last ELSE toks[Len(toks)]

\* RenderTop that moves up one row too few.
RenderTopOneShort(row, n) == row - (n - 1)

\* stdout.moveCursor(0, -options.length): the row render starts to paint at.
RenderTop(row, n) == row - n

\* The row the cursor is on after render wrote n lines, each ending in "\n".
RenderEnd(top, n) == top + n

\* The rows render paints for a cursor and a selection.
Render(c, sel, n) == [i \in 1..n |-> [pointer |-> (i - 1 = c), checkbox |-> ((i - 1) \in Range(sel))]]

\* The state before main runs, for a TEMPLATES table of one of the sizes ns.
InitWith(ns) ==
  /\ pc = "start"
  /\ exitCode = -1
  /\ exitReason = "none"
  /\ options \in {Choices(n) : n \in ns}
  /\ cursor = 0
  /\ selected = <<>>
  /\ msResolved = FALSE
  /\ selectedKeys = <<>>
  /\ cfResult = "undecided"
  /\ isRaw = FALSE
  /\ flowing = FALSE
  /\ listeners = {}
  /\ acquires = [p \in {"ms", "cf"} |-> 0]
  /\ releases = [p \in {"ms", "cf"} |-> 0]
  /\ cursorHidden = FALSE
  /\ lastCtl = "none"
  /\ frame = <<>>
  /\ frameTop = 0
  /\ frameEnd = 0
  /\ lastChunk = <<>>
  /\ chunkTo = "none"
  /\ dirExists \in BOOLEAN
  /\ files \in IF dirExists THEN {[k \in S |-> "user"] : S \in SUBSET {options[i].key : i \in 1..N}} ELSE {<<>>}
  /\ hooksPath = FALSE
  /\ staged = FALSE

\* TEMPLATES has between one and MaxN entries.
Init == InitWith(1..MaxN)

\* TEMPLATES is empty: multiselect is called with no option.
InitEmpty == InitWith({0})

(***************************************************************************)
(* main, up to the first prompt                                            *)
(***************************************************************************)
\* git rev-parse fails: main reports it and exits with status 1.
MainNotGit ==
  /\ pc = "start"
  /\ pc' = "exited"
  /\ exitCode' = 1
  /\ exitReason' = "notGit"
  /\ lastCtl' = LastOf(lastCtl, <<"clear", "sgr">>)
  /\ UNCHANGED <<options, msVars, cfResult, ttyVars, cursorHidden, lastChunk, chunkTo, fsVars>>

\* main calls multiselect(choices): cursor hidden, the frame painted, the
\* terminal put in raw mode and handleKey registered.
MsStart ==
  /\ pc = "start"
  /\ pc' = "msListening"
  /\ cursor' = 0
  /\ selected' = <<0>>
  /\ cursorHidden' = TRUE
  /\ lastCtl' = LastOf(LastOf(lastCtl, <<"clear", "sgr", "hide">>), RenderCtl(N))
  /\ frame' = Render(0, <<0>>, N)
  /\ frameTop' = RenderTop(0 + N, N)
  /\ frameEnd' = RenderEnd(frameTop', N)
  /\ isRaw' = TRUE
  /\ acquires' = [acquires EXCEPT !["ms"] = @ + 1]
  /\ flowing' = TRUE
  /\ listeners' = listeners \cup {"ms"}
  /\ UNCHANGED <<exitCode, exitReason, options, msResolved, selectedKeys, cfResult,
                 releases, lastChunk, chunkTo, fsVars>>

(***************************************************************************)
(* multiselect: handleKey                                                  *)
(***************************************************************************)
\* CursorUp that stops at the first option.
CursorUpNoWrap(c, n) == IF c > 0 THEN c - 1 ELSE 0

\* key === "\u001b[A": the cursor moves up and wraps to the last option.
CursorUp(c, n) == IF c > 0 THEN c - 1 ELSE n - 1

\* CursorDown without the wrap to the first option.
CursorDownNoWrap(c, n) == c + 1

\* key === "\u001b[B": the cursor moves down and wraps to the first option.
CursorDown(c, n) == IF c < n - 1 THEN c + 1 ELSE 0

\* Toggle that never deletes.
ToggleAddOnly(sel, c) == IF c \in Range(sel) THEN sel ELSE Append(sel, c)

\* key === " ": Set.delete removes the index, Set.add appends it.
Toggle(sel, c) ==
  IF c \in Range(sel) THEN SelectSeq(sel, LAMBDA i : i # c) ELSE Append(sel, c)

\* CursorAfter with the tests for Up and Down exchanged.
CursorAfterSwapped(c, key, n) ==
  LET c1 == IF key = DOWN THEN CursorUp(c, n) ELSE c
  IN  IF key = UP THEN CursorDown(c1, n) ELSE c1

\* The three navigation tests of handleKey, one after the other.
CursorAfter(c, key, n) ==
  LET c1 == IF key = UP THEN CursorUp(c, n) ELSE c
  IN  IF key = DOWN THEN CursorDown(c1, n) ELSE c1

\* SelectedAfter that toggles on Down as well as on Space.
SelectedAfterDownToggles(sel, c, key) == IF key \in {SPACE, DOWN} THEN Toggle(sel, c) ELSE sel

\* The test for Space, after the navigation tests.
SelectedAfter(sel, c, key) == IF key = SPACE THEN Toggle(sel, c) ELSE sel

\* Repaints without the render after Space.
RepaintsNotOnSpace(key) == key \in {UP, DOWN}

\* handleKey calls render for these keys.
Repaints(key) == key \in {UP, DOWN, SPACE}

\* Array.from(selected).map((i) => options[i].key): in insertion order.
ResultKeys(sel, opts) == [j \in 1..Len(sel) |-> opts[sel[j] + 1].key]

\* options[i] is undefined for some selected i: reading .key throws.
ResultThrows(sel, opts) == \E j \in 1..Len(sel) : sel[j] + 1 \notin 1..Len(opts)

\* main is suspended in an await: the event loop can emit a 'data' event.
Waiting == pc \in {"msListening", "cfListening"}

\* A 'data' event reaches multiselect's handleKey.
MsReceives(key) ==
  /\ Waiting
  /\ "ms" \in listeners
  /\ flowing
  /\ key \in Chunks
  /\ lastChunk' = key
  /\ chunkTo' = "ms"

\* MsInterrupt without the write of the show-cursor sequence.
MsInterruptNoShow ==
  /\ MsReceives(ETX)
  /\ pc' = "exited"
  /\ exitCode' = 1
  /\ exitReason' = "interrupt"
  /\ UNCHANGED <<options, msVars, cfResult, ttyVars, outVars, fsVars>>

\* Ctrl-C: the cursor is shown again and the process exits with status 1.
MsInterrupt ==
  /\ MsReceives(ETX)
  /\ cursorHidden' = FALSE
  /\ lastCtl' = LastOf(lastCtl, <<"show">>)
  /\ pc' = "exited"
  /\ exitCode' = 1
  /\ exitReason' = "interrupt"
  /\ UNCHANGED <<options, msVars, cfResult, ttyVars, fsVars>>

\* Any chunk but Ctrl-C and Enter: Up, Down and Space change the state and
\* repaint, every other chunk matches no test.
MsKey ==
  \E key \in Chunks \ {ETX, CR} :
    /\ MsReceives(key)
    /\ cursor' = CursorAfter(cursor, key, N)
    /\ selected' = SelectedAfter(selected, cursor', key)
    /\ frame' = IF Repaints(key) THEN Render(cursor', selected', N) ELSE frame
    /\ frameTop' = IF Repaints(key) THEN RenderTop(frameEnd, N) ELSE frameTop
    /\ frameEnd' = IF Repaints(key) THEN RenderEnd(frameTop', N) ELSE frameEnd
    /\ lastCtl' = IF Repaints(key) THEN LastOf(lastCtl, RenderCtl(N)) ELSE lastCtl
    /\ UNCHANGED <<pc, exitCode, exitReason, options, msResolved, selectedKeys, cfResult,
                   ttyVars, cursorHidden, fsVars>>

\* MsRelease without stdin.removeListener.
MsReleaseKeepsListener ==
  /\ isRaw' = FALSE
  /\ releases' = [releases EXCEPT !["ms"] = @ + 1]
  /\ flowing' = FALSE
  /\ cursorHidden' = FALSE
  /\ lastCtl' = LastOf(lastCtl, <<"show">>)
  /\ UNCHANGED <<acquires, listeners>>

\* What Enter does to stdin and stdout before the result is computed.
MsRelease ==
  /\ listeners' = listeners \ {"ms"}
  /\ isRaw' = FALSE
  /\ releases' = [releases EXCEPT !["ms"] = @ + 1]
  /\ flowing' = FALSE
  /\ cursorHidden' = FALSE
  /\ lastCtl' = LastOf(lastCtl, <<"show">>)
  /\ UNCHANGED acquires

\* Enter: the terminal is released and the promise resolves.
MsEnter ==
  /\ MsReceives(CR)
  /\ ~ResultThrows(selected, options)
  /\ MsRelease
  /\ msResolved' = TRUE
  /\ selectedKeys' = ResultKeys(selected, options)
  /\ pc' = "msResolved"
  /\ UNCHANGED <<exitCode, exitReason, options, cursor, selected, frame, frameTop, frameEnd,
                 cfResult, fsVars>>

\* Enter with a selected index that names no option: the terminal is
\* released, then the map throws in the handler and the process dies.
MsEnterThrows ==
  /\ MsReceives(CR)
  /\ ResultThrows(selected, options)
  /\ MsRelease
  /\ pc' = "exited"
  /\ exitCode' = 1
  /\ exitReason' = "crash"
  /\ UNCHANGED <<options, msVars, cfResult, fsVars>>

(***************************************************************************)
(* main, between the prompts                                               *)
(***************************************************************************)
\* selectedKeys.length === 0: main exits with status 0 and touches nothing.
MainNoHooks ==
  /\ pc = "msResolved"
  /\ Len(selectedKeys) = 0
  /\ pc' = "exited"
  /\ exitCode' = 0
  /\ exitReason' = "noHooks"
  /\ UNCHANGED <<options, msVars, cfResult, ttyVars, outVars, lastChunk, chunkTo, fsVars>>

\* FilesAfter without the test of fs.existsSync: every selected key is written.
FilesAfterOverwrite(fs, keys) ==
  [k \in (DOMAIN fs) \cup Range(keys) |-> IF k \in Range(keys) THEN "template" ELSE fs[k]]

\* selectedKeys.forEach: a file that exists is skipped, another is written
\* from its template.
FilesAfter(fs, keys) ==
  [k \in (DOMAIN fs) \cup Range(keys) |-> IF k \in DOMAIN fs THEN fs[k] ELSE "template"]

\* The hook files are created, git is configured (which may fail) and main
\* calls confirm: the question is written, the terminal put in raw mode and
\* confirm's handleKey registered.
MainScaffold ==
  /\ pc = "msResolved"
  /\ Len(selectedKeys) # 0
  /\ dirExists' = TRUE
  /\ files' = FilesAfter(files, selectedKeys)
  /\ hooksPath' \in BOOLEAN
  /\ lastCtl' = LastOf(lastCtl, <<"sgr">>)
  /\ isRaw' = TRUE
  /\ acquires' = [acquires EXCEPT !["cf"] = @ + 1]
  /\ flowing' = TRUE
  /\ listeners' = listeners \cup {"cf"}
  /\ pc' = "cfListening"
  /\ UNCHANGED <<exitCode, exitReason, options, msVars, cfResult, releases, cursorHidden,
                 lastChunk, chunkTo, staged>>

(***************************************************************************)
(* confirm: handleKey                                                      *)
(***************************************************************************)
\* A 'data' event reaches confirm's handleKey.
CfReceives(key) ==
  /\ Waiting
  /\ "cf" \in listeners
  /\ flowing
  /\ key \in Chunks
  /\ lastChunk' = key
  /\ chunkTo' = "cf"

\* CfInterrupt with process.exit(0).
CfInterruptExitsZero ==
  /\ CfReceives(ETX)
  /\ pc' = "exited"
  /\ exitCode' = 0
  /\ exitReason' = "interrupt"
  /\ UNCHANGED <<options, msVars, cfResult, ttyVars, outVars, fsVars>>

\* Ctrl-C: the process exits with status 1; nothing is written or restored.
CfInterrupt ==
  /\ CfReceives(ETX)
  /\ pc' = "exited"
  /\ exitCode' = 1
  /\ exitReason' = "interrupt"
  /\ UNCHANGED <<options, msVars, cfResult, ttyVars, outVars, fsVars>>

\* CfDecision without toLowerCase.
CfDecisionCaseSensitive(key) ==
  IF key = CR \/ key = <<121>> THEN "true"
  ELSE IF key = <<110>> THEN "false"
  ELSE "undecided"

\* The tests of confirm's handleKey after the one for Ctrl-C.
CfDecision(key) ==
  IF key = CR \/ ToLowerCase(key) = <<121>> THEN "true"
  ELSE IF ToLowerCase(key) = <<110>> THEN "false"
  ELSE "undecided"

\* CfCleanup without stdin.pause.
CfCleanupNoPause ==
  /\ listeners' = listeners \ {"cf"}
  /\ isRaw' = FALSE
  /\ releases' = [releases EXCEPT !["cf"] = @ + 1]
  /\ UNCHANGED <<acquires, flowing>>

\* cleanup(result).
CfCleanup ==
  /\ listeners' = listeners \ {"cf"}
  /\ isRaw' = FALSE
  /\ releases' = [releases EXCEPT !["cf"] = @ + 1]
  /\ flowing' = FALSE
  /\ UNCHANGED acquires

\* Enter, y or Y echo Yes and resolve true; n or N echo No and resolve false.
CfDecide ==
  \E key \in Chunks \ {ETX} :
    /\ CfReceives(key)
    /\ CfDecision(key) # "undecided"
    /\ lastCtl' = LastOf(lastCtl, <<"sgr", "sgr">>)
    /\ CfCleanup
    /\ cfResult' = CfDecision(key)
    /\ pc' = "cfResolved"
    /\ UNCHANGED <<exitCode, exitReason, options, msVars, cursorHidden, fsVars>>

\* Any other chunk matches no test.
CfIgnore ==
  \E key \in Chunks \ {ETX} :
    /\ CfReceives(key)
    /\ CfDecision(key) = "undecided"
    /\ UNCHANGED <<pc, exitCode, exitReason, options, msVars, cfResult, ttyVars, outVars, fsVars>>

(***************************************************************************)
(* main, after confirm                                                     *)
(***************************************************************************)
\* git add runs when confirm resolved true (and may fail); main returns and,
\* stdin being paused, the process ends with status 0.
MainFinish ==
  /\ pc = "cfResolved"
  /\ staged' \in (IF cfResult = "true" THEN BOOLEAN ELSE {FALSE})
  /\ lastCtl' = LastOf(lastCtl, <<"sgr", "sgr">>)
  /\ pc' = "exited"
  /\ exitCode' = 0
  /\ exitReason' = "done"
  /\ UNCHANGED <<options, msVars, cfResult, ttyVars, cursorHidden, lastChunk, chunkTo,
                 dirExists, files, hooksPath>>

\* With at least one option every selected index names an option, so the
\* map of Enter cannot throw and MsEnterThrows is left out.
Next ==
  \/ MainNotGit
  \/ MsStart
  \/ MsInterrupt
  \/ MsKey
  \/ MsEnter
  \/ MainNoHooks
  \/ MainScaffold
  \/ CfInterrupt
  \/ CfDecide
  \/ CfIgnore
  \/ MainFinish

Spec == Init /\ [][Next]_vars

\* With no option the selection resolved is empty or Enter throws: main never
\* gets past the test of selectedKeys.length.
NextEmpty ==
  \/ MainNotGit
  \/ MsStart
  \/ MsInterrupt
  \/ MsKey
  \/ MsEnter
  \/ MsEnterThrows
  \/ MainNoHooks

SpecEmpty == InitEmpty /\ [][NextEmpty]_vars


(***************************************************************************)
(* Properties                                                              *)
(***************************************************************************)
\* multiselect has been called.
MsCalled == pc # "start" /\ exitReason # "notGit"

\* The prompt has ended: its promise resolved or the process exited in it.
MsEnded == MsCalled /\ pc # "msListening"
CfEnded == acquires["cf"] > 0 /\ pc # "cfListening"

\* C1: with N >= 1 options the cursor stays inside 0..N-1 in every reachable
\* state, whatever chunks multiselect has received.
C1_CursorInRange == N >= 1 => (0 <= cursor /\ cursor < N)

\* C1 witness: Up from the first of three options has wrapped to the last.
C1_Witness == N = 3 /\ pc = "msListening" /\ lastChunk = UP /\ cursor = N - 1

\* The keys of the selected indices in ascending index order.
AscendingKeys(sel, opts) ==
  LET idx == SelectSeq([i \in 1..Len(opts) |-> i - 1], LAMBDA i : i \in Range(sel))
  IN  [j \in 1..Len(idx) |-> opts[idx[j] + 1].key]

\* C2: when Enter resolves multiselect, the result is the keys of the selected
\* indices in ascending index order, whatever the order of the toggles.
C2_ResultAscending == msResolved => selectedKeys = AscendingKeys(selected, options)

\* C3: multiselect called with no option resolves at once to the empty
\* selection: no raw mode, no key listener, no key received.
C3_EmptyResolvesImmediately ==
  (N = 0 /\ MsCalled) =>
    /\ msResolved
    /\ selectedKeys = <<>>
    /\ acquires["ms"] = 0
    /\ "ms" \notin listeners
    /\ chunkTo # "ms"

C5_ExitedTerminalRestored == pc = "exited" => (~isRaw /\ ~cursorHidden)

\* C6: a prompt that set raw mode sets it back exactly once, however it ends:
\* never twice, and once when the prompt has ended.
C6_ReleaseExactlyOnce ==
  /\ \A p \in {"ms", "cf"} : releases[p] <= acquires[p]
  /\ (MsEnded /\ acquires["ms"] = 1) => releases["ms"] = 1
  /\ (CfEnded /\ acquires["cf"] = 1) => releases["cf"] = 1

\* The chunks of one key.
SingleKeyChunks == WellFormedKeys \cup CharKeys \cup OtherEscapes

\* C7: in confirm, Enter, y and Y decide true, n and N decide false, and any
\* other single-key chunk but Ctrl-C leaves the prompt undecided and
\* listening; so the first deciding chunk decides.
C7_ConfirmDecision ==
  /\ (chunkTo = "cf" /\ lastChunk \in {CR, <<121>>, <<89>>}) =>
       (cfResult = "true" /\ pc \in {"cfResolved", "exited"})
  /\ (chunkTo = "cf" /\ lastChunk \in {<<110>>, <<78>>}) =>
       (cfResult = "false" /\ pc \in {"cfResolved", "exited"})
  /\ (chunkTo = "cf" /\ lastChunk \in SingleKeyChunks \ {ETX, CR, <<121>>, <<89>>, <<110>>, <<78>>}) =>
       (cfResult = "undecided" /\ pc = "cfListening" /\ "cf" \in listeners /\ isRaw /\ flowing)
  /\ cfResult # "undecided" =>
       (chunkTo = "cf" /\ lastChunk \in {CR, <<121>>, <<89>>, <<110>>, <<78>>})

\* C7 witness: Y has decided true.
C7_Witness == chunkTo = "cf" /\ lastChunk = <<89>> /\ cfResult = "true" /\ pc = "cfResolved"

\* C8: stdin has at most one data listener, and confirm acquires it only
\* after multiselect removed its listener, set raw mode off and paused it.
C8_OnePromptOwnsStdin ==
  /\ Cardinality(listeners) <= 1
  /\ pc = "msResolved" => (listeners = {} /\ ~isRaw /\ ~flowing)
  /\ acquires["cf"] > 0 => ("ms" \notin listeners /\ releases["ms"] = 1 /\ msResolved)

\* C8 witness: confirm is listening, alone, after multiselect released.
C8_Witness == pc = "cfListening" /\ listeners = {"cf"} /\ isRaw /\ releases["ms"] = 1

\* C9: Ctrl-C received by a prompt, in any of its states, ends the process
\* with a status that is not 0, and the prompt has no result.
C9_InterruptExitsNonZero ==
  /\ pc = "msListening" => ENABLED MsInterrupt
  /\ pc = "cfListening" => ENABLED CfInterrupt
  /\ (lastChunk = ETX \/ exitReason = "interrupt") =>
       /\ lastChunk = ETX
       /\ pc = "exited"
       /\ exitCode > 0
       /\ chunkTo = "ms" => (~msResolved /\ cfResult = "undecided")
       /\ chunkTo = "cf" => cfResult = "undecided"

\* C9 witness: Ctrl-C in confirm after another key.
C9_Witness == lastChunk = ETX /\ chunkTo = "cf" /\ pc = "exited" /\ exitCode = 1

\* C10: a chunk that holds two key encodings acts on multiselect as the two
\* keys delivered one after the other.
C10_ChunkOfKeysAsSeparateKeys ==
  [][\A a, b \in PairKeys :
       (pc = "msListening" /\ chunkTo' = "ms" /\ lastChunk' = a \o b) =>
         LET c1 == CursorAfter(cursor, a, N)
             s1 == SelectedAfter(selected, c1, a)
             c2 == IF a = CR THEN c1 ELSE CursorAfter(c1, b, N)
             s2 == IF a = CR THEN s1 ELSE SelectedAfter(s1, c2, b)
         IN  /\ cursor' = c2
             /\ selected' = s2
             /\ msResolved' = ((a = CR \/ b = CR) /\ ~ResultThrows(s2, options))
             /\ msResolved' => selectedKeys' = ResultKeys(s2, options)]_vars

\* This step is multiselect's handleKey receiving the chunk key while the
\* prompt is listening.
MsHandles(key) == pc = "msListening" /\ chunkTo' = "ms" /\ lastChunk' = key

\* C11: an unknown or truncated escape sequence makes no key event and
\* changes nothing of the prompt, and the well-formed key that follows it, in
\* the same chunk or in a later one, is still applied.
C11_MalformedEscapeThenKey ==
  [][/\ \A e \in OtherEscapes :
          MsHandles(e) => (pc' = pc /\ UNCHANGED <<cursor, selected, msResolved, frame, listeners>>)
     /\ \A e \in OtherEscapes :
          MsHandles(e \o DOWN) => (cursor' = (cursor + 1) % N /\ selected' = selected)
     /\ (lastChunk \in OtherEscapes /\ MsHandles(DOWN)) =>
          (cursor' = (cursor + 1) % N /\ selected' = selected)]_vars

\* C12: Space and Space again, with no cursor movement between, give back
\* the selected set: after the first Space the cursor has not moved and the
\* handler's second toggle restores the membership of every index.
C12_SpaceTwiceRestores ==
  [][MsHandles(SPACE) =>
       /\ cursor' = cursor
       /\ Range(selected') # Range(selected)
       /\ Range(SelectedAfter(selected', CursorAfter(cursor', SPACE, N), SPACE)) = Range(selected)]_vars

\* C12 witness: Space and Space again on index 0, with index 1 selected
\* between them, have put 0 back into the selection.
C12_Witness == pc = "msListening" /\ lastChunk = SPACE /\ cursor = 0 /\ selected = <<1, 0>>

RECURSIVE KeyTimes(_, _, _, _)
\* The cursor after the key is handled k times.
KeyTimes(c, key, n, k) == IF k = 0 THEN c ELSE KeyTimes(CursorAfter(c, key, n), key, n, k - 1)

\* C13: Down N times, and Up N times, bring the cursor back to where it
\* was, and so do Up then Down, and Down then Up.
C13_RingClosure ==
  [][/\ MsHandles(DOWN) =>
          (KeyTimes(cursor', DOWN, N, N - 1) = cursor /\ CursorAfter(cursor', UP, N) = cursor)
     /\ MsHandles(UP) =>
          (KeyTimes(cursor', UP, N, N - 1) = cursor /\ CursorAfter(cursor', DOWN, N) = cursor)]_vars

\* C13 witness: Up from the first of three options, on the last one now.
C13_Witness == N = 3 /\ pc = "msListening" /\ chunkTo = "ms" /\ lastChunk = UP /\ cursor = 2 /\ Len(selected) = 0

\* C14: Up sets the cursor to (cursor - 1 + N) mod N and Down to
\* (cursor + 1) mod N.
C14_UpDownModN ==
  [][/\ MsHandles(UP) => cursor' = (cursor - 1 + N) % N
     /\ MsHandles(DOWN) => cursor' = (cursor + 1) % N]_vars

\* C14 witness: Down from the last of three options has wrapped to the first.
C14_Witness == N = 3 /\ pc = "msListening" /\ lastChunk = DOWN /\ cursor = 0 /\ selected = <<0, 2>>

\* C15: Up and Down leave selected as it is; Space changes the membership of
\* the index under the cursor and of no other, and not the cursor; a chunk
\* that is none of Up, Down, Space, Enter and Ctrl-C changes neither and the
\* prompt goes on listening.
C15_KeyFrame ==
  [][/\ (MsHandles(UP) \/ MsHandles(DOWN)) => selected' = selected
     /\ MsHandles(SPACE) =>
          /\ cursor' = cursor
          /\ (cursor \in Range(selected')) # (cursor \in Range(selected))
          /\ \A i \in 0..(N - 1) : i # cursor => ((i \in Range(selected')) = (i \in Range(selected)))
          /\ Range(selected') \subseteq Range(selected) \cup {cursor}
     /\ \A key \in Chunks \ {UP, DOWN, SPACE, CR, ETX} :
          MsHandles(key) =>
            /\ cursor' = cursor
            /\ selected' = selected
            /\ pc' = "msListening"
            /\ "ms" \in listeners'
            /\ isRaw' /\ flowing']_vars

\* C15 witness: x was received while index 1 was under the cursor and two
\* indices were selected.
C15_Witness == pc = "msListening" /\ lastChunk = <<120>> /\ cursor = 1 /\ Len(selected) = 2

\* C16: while multiselect waits for a key, the frame painted last shows the
\* state: one row has the pointer, the row of the cursor, and row i has the
\* filled checkbox exactly when i is selected.
C16_FrameShowsState ==
  pc = "msListening" =>
    /\ Len(frame) = N
    /\ Cardinality({i \in 1..Len(frame) : frame[i].pointer}) = 1
    /\ \A i \in 1..Len(frame) :
         /\ frame[i].pointer = (i - 1 = cursor)
         /\ frame[i].checkbox = ((i - 1) \in Range(selected))

\* C16 witness: Space on the second row: it has the pointer and is checked.
C16_Witness ==
  /\ pc = "msListening" /\ lastChunk = SPACE /\ Len(frame) = 3
  /\ frame[2].pointer /\ frame[2].checkbox /\ ~frame[1].checkbox

\* C17: every paint starts N rows above the row the cursor was on and leaves
\* it N rows below that: the block stays on the N rows it was first painted
\* on and the cursor on the row below it.
C17_FrameStaysInPlace == MsCalled => (frameTop = 0 /\ frameEnd = N /\ Len(frame) = N)

\* C17 witness: three rows repainted after Up.
C17_Witness == pc = "msListening" /\ lastChunk = UP /\ N = 3 /\ frameTop = 0 /\ frameEnd = 3

\* C18: when either promise resolves, the prompt's listener is removed, raw
\* mode is off, stdin is paused and the cursor is visible.
C18_ReleasedWhenResolved ==
  /\ pc = "msResolved" => (msResolved /\ "ms" \notin listeners /\ ~isRaw /\ ~flowing /\ ~cursorHidden)
  /\ pc = "cfResolved" =>
       (cfResult # "undecided" /\ "cf" \notin listeners /\ ~isRaw /\ ~flowing /\ ~cursorHidden)

\* C18 witness: confirm has resolved false.
C18_Witness == pc = "cfResolved" /\ cfResult = "false" /\ lastChunk = <<110>>

\* C19: a decided prompt stays as decided: once multiselect has resolved no
\* step changes its cursor, selection, result or frame or releases it again,
\* and once confirm has resolved no chunk is handled and its result stays.
C19_OutcomeFinal ==
  [][/\ msResolved =>
          /\ msResolved'
          /\ UNCHANGED <<cursor, selected, selectedKeys, frame, frameTop, frameEnd>>
          /\ releases'["ms"] = releases["ms"]
          /\ chunkTo' = "ms" => UNCHANGED <<chunkTo, lastChunk>>
     /\ cfResult # "undecided" =>
          /\ cfResult' = cfResult
          /\ releases'["cf"] = releases["cf"]
          /\ UNCHANGED <<lastChunk, chunkTo, listeners, isRaw>>]_vars

\* C19 witness: Down arrived after multiselect had resolved with the cursor
\* on the first of three rows; it went to confirm.
C19_Witness ==
  /\ msResolved /\ pc = "cfListening" /\ chunkTo = "cf" /\ lastChunk = DOWN
  /\ N = 3 /\ cursor = 0 /\ Len(selectedKeys) = 2

\* C20: the scaffolding keeps every file that exists, creates files for
\* selected keys only, and nothing of the directory or the git setting
\* changes in any other step; with an empty selection the process exits with
\* status 0 and no directory, file, git setting or confirm prompt.
C20_ScaffoldKeepsFiles ==
  [][/\ \A k \in DOMAIN files : k \in DOMAIN files' /\ files'[k] = files[k]
     /\ \A k \in (DOMAIN files') \ (DOMAIN files) :
          k \in Range(selectedKeys) /\ files'[k] = "template" /\ pc = "msResolved"
     /\ (pc = "msResolved" /\ Len(selectedKeys) # 0) =>
          (DOMAIN files' = (DOMAIN files) \cup Range(selectedKeys) /\ dirExists')
     /\ pc # "msResolved" => UNCHANGED <<dirExists, files, hooksPath>>
     /\ (pc = "msResolved" /\ Len(selectedKeys) = 0) =>
          /\ pc' = "exited" /\ exitCode' = 0
          /\ UNCHANGED <<dirExists, files, hooksPath, staged, acquires, listeners, isRaw>>]_vars

\* C20 witness: of two selected keys one file was there and kept, the other
\* was created.
C20_Witness ==
  /\ pc = "cfListening"
  /\ \E k1, k2 \in Range(selectedKeys) : files[k1] = "user" /\ files[k2] = "template"
====
